---------------------------- MODULE Spec2Model ----------------------------
(***************************************************************************)
(* Model of the browser side of the OCP web viewer:                        *)
(*   - the Comms class of ocp_web/static/js/comms.js (connection           *)
(*     lifecycle, registration, message queue, inbound forwarding);         *)
(*   - the viewer lifecycle of viewer.html as excerpted in                 *)
(*     reports/report_viewer_lifecycle.md (showViewer, nc, resize).        *)
(* Strings are sequences of one-character strings, so that indexing        *)
(* (data[0]) and substring(2) are computed as the code computes them.      *)
(***************************************************************************)
EXTENDS Integers, Sequences, FiniteSets, TLC

\* ------------------------------------------------------------------ bounds
MaxSockets == 3      \* WebSocket objects created in one run
MaxSends == 2        \* calls of send() / sendStatus() by the page
MaxInbound == 1      \* inbound frames delivered by the server
MaxFrames == 3       \* inbound frames of a run of the inbound path alone
MaxCloseCalls == 1   \* calls of close() by the page
MaxScenes == 3       \* calls of showViewer() (scenes shown)
MaxChanges == 2      \* calls of nc() (view changes notified by the viewer)
MaxUiEvents == 2     \* resize events and CONFIG patches handled by the page
MaxElems == 2        \* elements of a numeric array of an Instance
MaxBytes == 5        \* bytes of a buffer that no encoder produced
MaxParts == 3        \* Parts of a scene payload
MaxTable == 2        \* Instances in the table of a scene payload
MaxConns == 3        \* connections that reach the session registry
MaxMessages == 2     \* messages the computation peer broadcasts
MaxRequests == 2     \* measurement requests sent to the backend
MaxFrameLen == 2     \* characters of a frame given to parseMessage alone

\* ------------------------------------------------- constructor constants
maxReconnectAttempts == 5
reconnectDelay == 1000

VARIABLES
    ws,                 \* this.ws: 0 is null, else the index of a socket
    readyState,         \* readyState[i] of the i-th WebSocket created
    isConnected,        \* this.isConnected
    reconnectAttempts,  \* this.reconnectAttempts
    messageQueue,       \* this.messageQueue
    timers,             \* pending setTimeout delays of attemptReconnect
    urlOk,              \* whether new WebSocket(url) succeeds for host/port
    sockLimit,          \* WebSocket objects this run may create (a bound)
    dispatching,        \* socket whose close event follows its error event
    wire,               \* history: every call of WebSocket.send
    calls,              \* history: every call of send() / sendStatus()
    posted,             \* history: every call of window.postMessage
    targetOrigins,      \* history: the targetOrigin of each of these calls
    received,           \* history: every frame delivered as a message event
    closeCalls,         \* history: number of close() calls
    \* ---- viewer.html
    viewer,             \* var viewer: 0 is null, else the index of a Viewer
    viewers,            \* every Viewer object created, with its fields
    display,            \* var display: FALSE is null, TRUE the Display
    _shapes,            \* var _shapes
    _config,            \* var _config
    _zoom,              \* var _zoom
    _position,          \* var _position
    _quaternion,        \* var _quaternion
    _target,            \* var _target
    _clipping,          \* var _clipping
    pc,                 \* the statement of showViewer() that runs next
    scene,              \* the arguments of the showViewer() call in progress
    changes,            \* history: number of nc() calls
    carried,            \* history: the view state when showViewer() was entered
    treeview,           \* viewer.treeview of the current viewer
    old_states,         \* var old_states of the message handler
    pending,            \* message events posted to the window, not yet handled
    arrived,            \* history: every scene posted to the window
    rendered,           \* history: every scene rendered, in order
    touched,            \* history: calls on render objects by resize / CONFIG
    uiEvents,           \* history: number of resize / CONFIG events handled
    \* ---- the geometry codec
    instance,           \* the Instance the producer encodes
    payload,            \* the scene payload given to decode(data)
    decoded,            \* what decode(data) produced
    codecPc,            \* "encode", "decode" or "done"
    \* ---- the session registry of the server
    roles,              \* roles[c]: what connection c is to the registry
    lastScene,          \* the SCENE retained for catch-up
    outbox,             \* outbox[c]: what was sent to connection c, in order
    broadcast,          \* the broadcast in progress, or the last one
    sent,               \* history: every message broadcast, in order
    registrations,      \* history: every register() call and its outcome
    \* ---- the measurement tools
    toolRequests,       \* history: every measurement request sent, in order
    responses,          \* every response of the backend, in order
    panels,             \* panels[tool]: the responses shown in its panel
    backendAlive        \* whether the backend process runs

commsVars == <<ws, readyState, isConnected, reconnectAttempts, messageQueue,
               timers, urlOk, sockLimit, dispatching, wire, calls, posted,
               targetOrigins,
               received, closeCalls>>

viewerVars == <<viewer, viewers, display, _shapes, _config, _zoom, _position,
                _quaternion, _target, _clipping, pc, scene, changes,
                carried>>

outlineVars == <<treeview, old_states, pending, arrived, rendered, touched,
                 uiEvents>>

codecVars == <<instance, payload, decoded, codecPc>>

registryVars == <<roles, lastScene, outbox, broadcast, sent, registrations>>

measureVars == <<toolRequests, responses, panels, backendAlive>>

otherVars == <<codecVars, registryVars, measureVars>>

vars == <<commsVars, viewerVars, outlineVars, otherVars>>

Range(s) == {s[i] : i \in 1..Len(s)}

\* substring(from) with a 0-based start index, as String.prototype.substring
substring(data, from) == SubSeq(data, from + 1, Len(data))

Sockets == 1..Len(readyState)


\* ---------------------------------------------------------- input domains
\* messages the page passes to send() directly
Messages == { <<"C", ":", "1">>, <<"S", ":", "{", "}">> }
\* status values the page passes to sendStatus()
Statuses == { "s1", "s2" }
\* inbound frames: event.data is a string (text) or not (a binary frame)
FrameTexts ==
    { <<>>, <<"D">>, <<"X">>, <<"D", ":">>, <<"D", ":", "{", "}">>,
      <<"D", ":", "x">>, <<"X", ":", "{", "}">>, <<"X", ":", "x">>,
      <<"L", ":">> }
Frames ==
    { [isString |-> TRUE, data |-> t] : t \in FrameTexts }
        \cup { [isString |-> FALSE, data |-> <<>>] }

\* the characters of the frames given to the parser alone: the seven
\* discriminators, a lower-case one, one that is none, and the separator
FrameChars == {"C", "D", "S", "U", "L", "B", "R", "c", "X", ":"}
FrameStrings ==
    UNION { [1..n -> FrameChars] : n \in 0..MaxFrameLen }

\* ------------------------------------------------------------------ JSON
\* JSON.stringify({command: 'status', text: message})
JSONstringify(obj) ==
    <<"{", "command", ":", obj.command, ",", "text", ":", obj.text, "}">>

\* the JSON texts of the model's alphabet that JSON.parse accepts
JSONTexts == { <<"{", "}">>, <<"[", "]">>, <<"1">> }
JSONparseThrows(content) == content \notin JSONTexts
JSONparse(content) == [json |-> content]

\* ------------------------------------------------------- inbound parsing
types == [C |-> "command", D |-> "data", S |-> "config", U |-> "update",
          L |-> "listen", B |-> "backend", R |-> "response"]

\* a lookup that takes a lower-case 'c' for 'C'
getMessageType_LowerCase(typeChar) ==
    IF typeChar = "c" THEN types["C"]
    ELSE IF typeChar \in DOMAIN types THEN types[typeChar] ELSE "unknown"

\* mutant: the lookup without its `|| 'unknown'` default
getMessageType_NoDefault(typeChar) ==
    IF typeChar \in DOMAIN types THEN types[typeChar] ELSE "undefined"

getMessageType(typeChar) ==
    IF typeChar \in DOMAIN types THEN types[typeChar] ELSE "unknown"

\* the value JavaScript's null is modelled by
null == [type |-> "null", field |-> "none", value |-> <<>>]

\* mutant: a payload that is not JSON makes parseMessage return null
parseMessage_NullOnParseError(data) ==
    IF Len(data) < 2 THEN null
    ELSE LET type == data[1]
             content == substring(data, 2)
         IN  IF ~JSONparseThrows(content)
             THEN [type |-> getMessageType(type), field |-> "data",
                   value |-> JSONparse(content).json]
             ELSE null

parseMessage(data) ==
    IF Len(data) < 2 THEN null
    ELSE LET type == data[1]
             content == substring(data, 2)
         IN  IF ~JSONparseThrows(content)
             THEN [type |-> getMessageType(type), field |-> "data",
                   value |-> JSONparse(content).json]
             ELSE [type |-> getMessageType(type), field |-> "text",
                   value |-> content]

\* ----------------------------------------------------- outbound sending
\* one call of WebSocket.send on socket sock whose ready states are rs
wsSend(w, sock, rs, message) ==
    Append(w, [sock |-> sock, msg |-> message, st |-> rs[sock]])

\* mutant: send() trusts isConnected and does not read readyState
CanTransmit_NoReadyState(conn, sock, rs) ==
    conn /\ sock # 0

\* the condition of send(): connected, a socket, and that socket OPEN
CanTransmit(conn, sock, rs) ==
    conn /\ sock # 0 /\ rs[sock] = "OPEN"

\* send(message) declares one parameter: further arguments are dropped
sendParam(args) == args[1]

\* a send() that keeps a copy in the queue of what it transmitted
send_KeepsCopy(args, conn, sock, rs, w, q) ==
    LET message == sendParam(args)
    IN  IF CanTransmit(conn, sock, rs)
        THEN [wire |-> wsSend(w, sock, rs, message),
              queue |-> Append(q, message)]
        ELSE [wire |-> w, queue |-> Append(q, message)]

\* send(message): the wire and the queue after the call
send(args, conn, sock, rs, w, q) ==
    LET message == sendParam(args)
    IN  IF CanTransmit(conn, sock, rs)
        THEN [wire |-> wsSend(w, sock, rs, message), queue |-> q]
        ELSE [wire |-> w, queue |-> Append(q, message)]

\* the arguments sendStatus(message) calls send() with
sendStatusArgs(message) ==
    << <<"U", ":">>, JSONstringify([command |-> "status", text |-> message]) >>

\* a flush that empties the queue and transmits nothing
flushQueue_Discard(q, sock, rs, w) == [wire |-> w, queue |-> <<>>]

\* a flush that takes the newest message first: pop() in place of shift()
RECURSIVE flushQueue_NewestFirst(_, _, _, _)
flushQueue_NewestFirst(q, sock, rs, w) ==
    IF q = <<>> THEN [wire |-> w, queue |-> q]
    ELSE IF sock = 0 THEN [wire |-> w, queue |-> SubSeq(q, 1, Len(q) - 1)]
    ELSE flushQueue_NewestFirst(SubSeq(q, 1, Len(q) - 1), sock, rs,
                                wsSend(w, sock, rs, q[Len(q)]))

\* mutant: `if` in place of `while`, only the oldest message is flushed
flushQueue_OnlyFirst(q, sock, rs, w) ==
    IF q = <<>> \/ sock = 0 THEN [wire |-> w, queue |-> q]
    ELSE [wire |-> wsSend(w, sock, rs, Head(q)), queue |-> Tail(q)]

\* while (messageQueue.length > 0) { shift(); this.ws.send(message) }
\* this.ws.send throws when this.ws is null (TypeError) or the socket is
\* still CONNECTING (InvalidStateError): the loop ends with the shifted
\* message gone.
RECURSIVE flushQueue(_, _, _, _)
flushQueue(q, sock, rs, w) ==
    IF q = <<>> THEN [wire |-> w, queue |-> q]
    ELSE IF sock = 0 THEN [wire |-> w, queue |-> Tail(q)]
    ELSE IF rs[sock] = "CONNECTING"
         THEN [wire |-> wsSend(w, sock, rs, Head(q)), queue |-> Tail(q)]
    ELSE flushQueue(Tail(q), sock, rs, wsSend(w, sock, rs, Head(q)))

\* ---------------------------------------------------------- reconnection
\* a reconnect after the same delay every time
attemptReconnect_FixedDelay(attempts, tm) ==
    IF attempts < maxReconnectAttempts
    THEN [attempts |-> attempts + 1, timers |-> Append(tm, reconnectDelay)]
    ELSE [attempts |-> attempts, timers |-> tm]

\* a budget check with <= in place of <: one attempt more
attemptReconnect_OneMore(attempts, tm) ==
    IF attempts <= maxReconnectAttempts
    THEN [attempts |-> attempts + 1,
          timers |-> Append(tm, reconnectDelay * (attempts + 1))]
    ELSE [attempts |-> attempts, timers |-> tm]

\* mutant: the attempt is counted but no timer is set
attemptReconnect_NoTimer(attempts, tm) ==
    IF attempts < maxReconnectAttempts
    THEN [attempts |-> attempts + 1, timers |-> tm]
    ELSE [attempts |-> attempts, timers |-> tm]

\* attemptReconnect(): the attempts counter and the timers after the call
attemptReconnect(attempts, tm) ==
    IF attempts < maxReconnectAttempts
    THEN [attempts |-> attempts + 1,
          timers |-> Append(tm, reconnectDelay * (attempts + 1))]
    ELSE [attempts |-> attempts, timers |-> tm]

\* connect(): new WebSocket(url) either yields a CONNECTING socket that
\* becomes this.ws, or throws and the catch block calls attemptReconnect()
connect(ok, sock, rs, attempts, tm) ==
    IF ok
    THEN [ws |-> Len(rs) + 1, readyState |-> Append(rs, "CONNECTING"),
          attempts |-> attempts, timers |-> tm]
    ELSE LET r == attemptReconnect(attempts, tm)
         IN  [ws |-> sock, readyState |-> rs,
              attempts |-> r.attempts, timers |-> r.timers]

RemoveAt(s, i) == SubSeq(s, 1, i - 1) \o SubSeq(s, i + 1, Len(s))

\* ----------------------------------------------------------- viewer.html
\* JavaScript's null and undefined of a view value
nullValue == 0
undefined == 0
\* the values a camera or clipping parameter takes
Values == {1, 2}
\* the scenes (shapes with their configuration) the backend sends
ShapeSets == {"s1", "s2"}
Configs == {"c1"}
\* the Part identifiers of the scenes, and the outline state each Part
\* carries in the payload (state: [shown, expanded])
PartIds == {"a", "b", "c"}
StateValues == {"11", "10"}
absent == "absent"
Parts(shapes) == IF shapes = "s1" THEN {"a", "b"} ELSE {"b", "c"}
PayloadState(shapes, id) ==
    IF shapes = "s2" /\ id = "b" THEN "10" ELSE "11"
\* the empty object {}
NoStates == [id \in PartIds |-> absent]
\* a Viewer before render(): treeview is null
nullTree == [exists |-> FALSE, states |-> NoStates]
\* the keys of a change object that nc() reads
ChangeKeys == {"zoom", "position", "quaternion", "target",
               "clip_intersection", "clip_slider_0", "clip_normal_0"}
\* the change objects of the model: one key changes, or the four camera
\* keys change together
Changes ==
    { [k \in ChangeKeys |-> IF k = key THEN v ELSE undefined] :
          key \in ChangeKeys, v \in Values }
    \cup { [k \in ChangeKeys |->
              IF k \in {"zoom", "position", "quaternion", "target"}
              THEN v ELSE undefined] : v \in Values }

\* the page's variables as declared
ViewerInit ==
    /\ viewer = 0
    /\ viewers = <<>>
    /\ display = FALSE
    /\ _shapes = "null"
    /\ _config = "null"
    /\ _zoom = nullValue
    /\ _position = nullValue
    /\ _quaternion = nullValue
    /\ _target = nullValue
    /\ _clipping = [sliders |-> <<>>, normals |-> <<>>,
                    intersection |-> nullValue]
    /\ pc = "idle"
    /\ scene = [shapes |-> "null", config |-> "null"]
    /\ changes = 0
    /\ carried = <<nullValue, nullValue, nullValue, nullValue,
                   [sliders |-> <<>>, normals |-> <<>>,
                    intersection |-> nullValue]>>
    /\ treeview = nullTree
    /\ old_states = NoStates
    /\ pending = <<>>
    /\ arrived = <<>>
    /\ rendered = <<>>
    /\ touched = <<>>
    /\ uiEvents = 0

\* ------------------------------------------------------ geometry codec
\* an Instance with no elements, a payload with no parts and no instances,
\* and the result before decode() has run
noInstance == [vertices |-> <<>>, triangles |-> <<>>]
noData == [parts |-> <<>>, instances |-> <<>>]
notDecoded == [threw |-> "", parts |-> <<>>, heap |-> <<>>]

\* all sequences over S of length at most n
SeqsUpTo(S, n) == UNION { [1..k -> S] : k \in 0..n }

\* a 32-bit word as its two 16-bit halves <<high, low>>: an unsigned word
\* does not fit in one signed 32-bit number
Word(b) == <<b[3] + 256 * b[4], b[1] + 256 * b[2]>>

\* the four bytes of a word, least significant first (little-endian)
Bytes(w) == <<w[2] % 256, w[2] \div 256, w[1] % 256, w[1] \div 256>>

\* the two's complement word of a 32-bit signed integer
Int32Word(v) ==
    IF v >= 0 THEN <<v \div 65536, v % 65536>>
    ELSE LET u == (v + 2147483647) + 1
         IN  <<(u \div 65536) + 32768, u % 65536>>

\* whether the element a Uint32Array reads from word w, the unsigned
\* number the word holds, is the integer v
WordIsInt(w, v) == v >= 0 /\ w = <<v \div 65536, v % 65536>>

\* the floats of the model with their IEEE 754 binary32 words
Floats == {"0.0", "1.0", "-1.5"}
Float32Word(f) ==
    IF f = "0.0" THEN <<0, 0>>
    ELSE IF f = "1.0" THEN <<16256, 0>>
    ELSE <<49088, 0>>

\* the integers of the model: the extremes of int32, -1, 0 and 1
IntValues == {-2147483647 - 1, -1, 0, 1, 2147483647}

\* the Instances the producer may hold (vertices and normals are float32,
\* triangles and edges int32: one array of each type is kept)
Instances ==
    [vertices : SeqsUpTo(Floats, MaxElems),
     triangles : SeqsUpTo(IntValues, MaxElems)]

\* the bytes of a numeric array, element after element
RECURSIVE Concat(_)
Concat(ss) == IF ss = <<>> THEN <<>> ELSE Head(ss) \o Concat(Tail(ss))

\* base64 text as its digits 0..63, the padding character "=" as pad
pad == 64

\* the base64 text of a byte sequence: 4 digits for every 3 bytes, the
\* last group padded
toB64(bytes) ==
    LET n == Len(bytes)
        at(k) == IF k <= n THEN bytes[k] ELSE 0
        group(g) ==
            LET v == at(3 * g - 2) * 65536 + at(3 * g - 1) * 256 + at(3 * g)
            IN  << v \div 262144,
                   (v \div 4096) % 64,
                   IF 3 * g - 1 > n THEN pad ELSE (v \div 64) % 64,
                   IF 3 * g > n THEN pad ELSE v % 64 >>
    IN  Concat([g \in 1..((n + 2) \div 3) |-> group(g)])

\* fromB64(text): the bytes of a base64 text, 3 for every 4 digits less
\* the padded ones
fromB64(text) ==
    LET digit(k) == IF text[k] = pad THEN 0 ELSE text[k]
        group(g) ==
            LET v == digit(4 * g - 3) * 262144 + digit(4 * g - 2) * 4096
                         + digit(4 * g - 1) * 64 + digit(4 * g)
                all == << v \div 65536, (v \div 256) % 256, v % 256 >>
                pads == Cardinality({ k \in (4 * g - 1)..(4 * g) :
                                         text[k] = pad })
            IN  SubSeq(all, 1, 3 - pads)
    IN  Concat([g \in 1..(Len(text) \div 4) |-> group(g)])

\* the hexadecimal text of a byte sequence as its digits 0..15
toHex(bytes) ==
    Concat([k \in 1..Len(bytes) |-> << bytes[k] \div 16, bytes[k] % 16 >>])

\* fromHex(text): one byte for every two digits
fromHex(text) ==
    [k \in 1..(Len(text) \div 2) |-> text[2 * k - 1] * 16 + text[2 * k]]

\* the producer's encoding of an Instance: {buffer, codec, dtype} for each
\* array, the buffer the base64 text of the little-endian elements
encode(I) ==
    [vertices |->
        [buffer |-> toB64(Concat([i \in 1..Len(I.vertices) |->
                                     Bytes(Float32Word(I.vertices[i]))])),
         codec |-> "b64", dtype |-> "float32"],
     triangles |->
        [buffer |-> toB64(Concat([i \in 1..Len(I.triangles) |->
                                     Bytes(Int32Word(I.triangles[i]))])),
         codec |-> "b64", dtype |-> "int32"]]

\* new Float32Array(arrayBuffer) / new Uint32Array(arrayBuffer): a
\* RangeError unless the byte length is a multiple of 4, else one element
\* for every 4 bytes
TypedArray(ctor, bytes) ==
    IF Len(bytes) % 4 # 0
    THEN [threw |-> "RangeError", ctor |-> ctor, elems |-> <<>>]
    ELSE [threw |-> "", ctor |-> ctor,
          elems |-> [i \in 1..(Len(bytes) \div 4) |->
                        Word(SubSeq(bytes, 4 * i - 3, 4 * i))]]

\* a conversion that reads as many whole elements as the bytes hold
convert_Truncating(obj) ==
    LET buffer == IF obj.codec = "b64" THEN fromB64(obj.buffer)
                  ELSE fromHex(obj.buffer)
    IN  [threw |-> "",
         ctor |-> IF obj.dtype = "float32" THEN "Float32Array"
                  ELSE "Uint32Array",
         elems |-> [i \in 1..(Len(buffer) \div 4) |->
                       Word(SubSeq(buffer, 4 * i - 3, 4 * i))]]

\* convert(obj) of decode(): the typed array for a {buffer, codec, dtype}
convert(obj) ==
    LET buffer == IF obj.codec = "b64" THEN fromB64(obj.buffer)
                  ELSE fromHex(obj.buffer)
    IN  IF obj.dtype = "float32" THEN TypedArray("Float32Array", buffer)
        ELSE IF obj.dtype = "int32" THEN TypedArray("Uint32Array", buffer)
        ELSE [threw |-> "", ctor |-> "undefined", elems |-> <<>>]

\* the arrays of one entry of the instance table, converted
convertInstance(inst) ==
    [vertices |-> convert(inst.vertices),
     triangles |-> convert(inst.triangles)]

\* a resolution that gives every Part its own copy of the Instance
resolve_Copies(shape, i, table) ==
    IF ~shape.hasRef THEN [kind |-> "inline", addr |-> 0]
    ELSE IF shape.ref < Len(table)
    THEN [kind |-> "instance", addr |-> Len(table) + i]
    ELSE [kind |-> "undefined", addr |-> 0]

\* if (obj.shape.ref !== undefined) obj.shape = instances[obj.shape.ref];
\* the shape of the i-th Part: the address of the table's object, or
\* undefined when the table has no such index
resolve(shape, i, table) ==
    IF ~shape.hasRef THEN [kind |-> "inline", addr |-> 0]
    ELSE IF shape.ref < Len(table)
    THEN [kind |-> "instance", addr |-> shape.ref + 1]
    ELSE [kind |-> "undefined", addr |-> 0]

\* decode(data): the arrays of every Instance of the table are converted,
\* then the Parts that carry a reference get the table's object; heap is
\* the Instance objects that exist afterwards, a shape holds the address
\* of one of them
decode(d) ==
    LET table == [k \in 1..Len(d.instances) |->
                     convertInstance(d.instances[k])]
        bad == \E k \in 1..Len(table) :
                   table[k].vertices.threw # ""
                   \/ table[k].triangles.threw # ""
        shapes == [i \in 1..Len(d.parts) |-> resolve(d.parts[i], i, table)]
    IN  IF bad
        THEN [threw |-> "RangeError", parts |-> <<>>, heap |-> <<>>]
        ELSE [threw |-> "", parts |-> shapes, heap |-> table]

\* ------------------------------------------------------------------ Init
\* the constructor: the fields, then connect()
InitWith(limit) ==
    /\ urlOk \in BOOLEAN
    /\ sockLimit = limit
    /\ LET c == connect(urlOk, 0, <<>>, 0, <<>>)
       IN  /\ ws = c.ws
           /\ readyState = c.readyState
           /\ reconnectAttempts = c.attempts
           /\ timers = c.timers
    /\ isConnected = FALSE
    /\ messageQueue = <<>>
    /\ dispatching = 0
    /\ wire = <<>>
    /\ calls = <<>>
    /\ posted = <<>>
    /\ targetOrigins = <<>>
    /\ received = <<>>
    /\ closeCalls = 0
    /\ ViewerInit

\* the payloads no encoder produced: one Instance with two buffers that
\* hold any number of bytes up to MaxBytes
RawBytes == {0, 255}
RawPayloads ==
    { [parts |-> <<[hasRef |-> TRUE, ref |-> 0]>>,
       instances |-> <<[vertices |-> [buffer |-> toB64(v), codec |-> "b64",
                                      dtype |-> "float32"],
                        triangles |-> [buffer |-> toHex(x), codec |-> "hex",
                                       dtype |-> "int32"]]>>] :
          v \in SeqsUpTo(RawBytes, MaxBytes),
          x \in SeqsUpTo(RawBytes, MaxBytes) }

\* the scene payloads whose Parts refer to a table of well-formed
\* Instances: a Part has inline geometry or an index from 0 to MaxTable
TableEntries ==
    { encode([vertices |-> <<"1.0">>, triangles |-> <<0>>]),
      encode([vertices |-> <<"-1.5">>, triangles |-> <<1>>]) }
Shapes ==
    { [hasRef |-> FALSE, ref |-> 0] }
        \cup { [hasRef |-> TRUE, ref |-> r] : r \in 0..MaxTable }
ScenePayloads ==
    [parts : SeqsUpTo(Shapes, MaxParts),
     instances : SeqsUpTo(TableEntries, MaxTable)]

\* the base64 text "AQAAAAAA" as its digits: A is 0, Q is 16
logoBuffer == <<0, 16, 0, 0, 0, 0, 0, 0>>

\* logo(): the built-in scene: one Part with ref: 0 and a table of one
\* Instance whose arrays all carry the text "AQAAAAAA", the float32 ones
\* (vertices, obj_vertices, normals) kept as vertices, the int32 ones
\* (triangles, edges) as triangles
logo ==
    [parts |-> <<[hasRef |-> TRUE, ref |-> 0]>>,
     instances |-> <<[vertices |-> [buffer |-> logoBuffer, codec |-> "b64",
                                    dtype |-> "float32"],
                      triangles |-> [buffer |-> logoBuffer, codec |-> "b64",
                                     dtype |-> "int32"]]>>]

\* an Instance to encode and decode, or a payload to decode
CodecInputs ==
    \/ /\ codecPc = "encode"
       /\ instance \in Instances
       /\ payload = noData
       /\ decoded = notDecoded
    \/ /\ codecPc = "decode"
       /\ instance = noInstance
       /\ payload \in RawPayloads \cup ScenePayloads \cup {logo}
       /\ decoded = notDecoded

\* no payload is being decoded
CodecIdle ==
    /\ instance = noInstance
    /\ payload = noData
    /\ decoded = notDecoded
    /\ codecPc = "done"

\* --------------------------------------------------- session registry
Conns == 1..MaxConns
Roles == {"computation", "visualization"}

\* the message types the computation peer broadcasts
BroadcastTypes == {"SCENE", "COMMAND", "CONFIG", "TOOL_RESPONSE"}

noMessage == [type |-> "", id |-> 0]
RoleConflict == [type |-> "RoleConflict", id |-> 0]

noBroadcast == [msg |-> noMessage, snapshot |-> {}, visited |-> {},
                dropped |-> {}, active |-> FALSE]

computationPeers == { c \in Conns : roles[c] = "computation" }
visualizationPeers == { c \in Conns : roles[c] = "visualization" }

\* a registry that takes every connection
admits_Always(role) == TRUE

\* whether register(connection, role) takes the connection: a computation
\* peer only when the session has none
admits(role) == role = "visualization" \/ computationPeers = {}

\* what a newly registered peer is sent at once: the retained SCENE, to a
\* visualization peer
catchUp(role) ==
    IF role = "visualization" /\ lastScene # noMessage
    THEN <<lastScene>> ELSE <<>>

\* a registry that retains whatever was broadcast last
retain_Any(msg, last) == msg

\* the message retained for catch-up after msg was broadcast
retain(msg, last) == IF msg.type = "SCENE" THEN msg ELSE last

\* an iteration over the live set of peers: it ends when the set is no
\* longer the one the broadcast began with
iteration_LiveSet(b) ==
    IF { c \in Conns : roles[c] = "visualization" } # b.snapshot
    THEN {} ELSE b.snapshot \ b.visited

\* the peers the broadcast in progress has still to visit: those of the
\* snapshot taken when it began
iteration(b) == b.snapshot \ b.visited

\* no connection has reached the registry
RegistryInit ==
    /\ roles = [c \in Conns |-> "new"]
    /\ lastScene = noMessage
    /\ outbox = [c \in Conns |-> <<>>]
    /\ broadcast = noBroadcast
    /\ sent = <<>>
    /\ registrations = <<>>

\* ---------------------------------------------------- measurement tools
Distance == "DistanceMeasurement"
Properties == "PropertiesMeasurement"
Tools == {Distance, Properties}

\* the identifiers a selection may hold: two objects of the scene and one
\* of a scene that was replaced
ObjectIds == {"o1", "o2", "gone"}
\* self.model: the objects of the current scene
model == {"o1", "o2"}

\* the objects the user picked, in order, none picked twice
Selections ==
    { s \in UNION { [1..n -> ObjectIds] : n \in 0..Cardinality(ObjectIds) } :
          \A i, j \in DOMAIN s : i # j => s[i] # s[j] }

\* selectedShapeIDs of the update the page sends:
\* [shape_id1, shape_id2, shift_state]
selectedShapeIDs(ids, shift) == ids \o <<shift>>

\* response["type"], ["subtype"], ["tool_type"] and the result; the
\* request that caused it is kept with it
toolResponse(k, tool, error, result) ==
    [request |-> k, type |-> "backend_response",
     subtype |-> "tool_response", tool_type |-> tool,
     error |-> error, result |-> result]

noResult == [has |-> FALSE, info |-> ""]

\* get_distance(shape1, shape2, center): the distance between the centres
\* or the minimum distance
get_distance(shape1, shape2, center) ==
    [has |-> TRUE, info |-> IF center THEN "center" ELSE "min"]

\* get_properties(shape)
get_properties(shape) == [has |-> TRUE, info |-> "properties"]

\* handle_distance(shape_id1, shape_id2, center): the shapes are looked up
\* in self.model
handle_distance(k, shape_id1, shape_id2, center) ==
    IF {shape_id1, shape_id2} \subseteq model
    THEN toolResponse(k, Distance, "",
                      get_distance(shape_id1, shape_id2, center))
    ELSE toolResponse(k, Distance, "UnknownObjectReference", noResult)

\* handle_properties(shape_id)
handle_properties(k, shape_id) ==
    IF shape_id \in model
    THEN toolResponse(k, Properties, "", get_properties(shape_id))
    ELSE toolResponse(k, Properties, "UnknownObjectReference", noResult)

\* a backend that measures the first two objects of a longer selection
handle_activated_tool_FirstTwo(k, tool, selected) ==
    IF tool = Distance
    THEN IF Len(selected) >= 3
         THEN handle_distance(k, selected[1], selected[2],
                              selected[Len(selected)])
         ELSE toolResponse(k, tool, "InvalidSelectionCount", noResult)
    ELSE IF Len(selected) = 2
         THEN handle_properties(k, selected[1])
         ELSE toolResponse(k, tool, "InvalidSelectionCount", noResult)

\* handle_activated_tool(): the tool is Tool.Distance and selectedShapeIDs
\* has 3 elements, two identifiers and the shift state, or the tool is
\* the properties tool with one identifier
handle_activated_tool(k, tool, selected) ==
    IF tool = Distance
    THEN IF Len(selected) = 3
         THEN handle_distance(k, selected[1], selected[2], selected[3])
         ELSE toolResponse(k, tool, "InvalidSelectionCount", noResult)
    ELSE IF Len(selected) = 2
         THEN handle_properties(k, selected[1])
         ELSE toolResponse(k, tool, "InvalidSelectionCount", noResult)

\* a backend that answers every request as a distance measurement
handle_event_AsDistance(k, update) ==
    [handle_activated_tool(k, update.activeTool, update.selectedShapeIDs)
        EXCEPT !.tool_type = Distance]

\* handle_event() for MessageType.UPDATES: activeTool and selectedShapeIDs
\* are taken from the changes of the update
handle_event(k, update) ==
    handle_activated_tool(k, update.activeTool, update.selectedShapeIDs)

\* no measurement was asked for
MeasureInit ==
    /\ toolRequests = <<>>
    /\ responses = <<>>
    /\ panels = [tool \in Tools |-> <<>>]
    /\ backendAlive = TRUE

Init == InitWith(MaxSockets) /\ CodecIdle /\ RegistryInit /\ MeasureInit

\* --------------------------------------------------------------- actions
\* a timer that stays set after it fired: setInterval for setTimeout
TimerFire_Interval(i) ==
    /\ dispatching = 0
    /\ i \in 1..Len(timers)
    /\ urlOk => Len(readyState) < sockLimit
    /\ LET c == connect(urlOk, ws, readyState, reconnectAttempts,
                        timers)
       IN  /\ ws' = c.ws
           /\ readyState' = c.readyState
           /\ reconnectAttempts' = c.attempts
           /\ timers' = c.timers
    /\ UNCHANGED <<isConnected, messageQueue, urlOk, sockLimit, dispatching, wire, calls,
                   posted, targetOrigins, received, closeCalls,
                   viewerVars, outlineVars,
                   otherVars>>

\* the reconnect timer fires: () => { this.connect(); }
TimerFire(i) ==
    /\ dispatching = 0
    /\ i \in 1..Len(timers)
    /\ urlOk => Len(readyState) < sockLimit
    /\ LET c == connect(urlOk, ws, readyState, reconnectAttempts,
                        RemoveAt(timers, i))
       IN  /\ ws' = c.ws
           /\ readyState' = c.readyState
           /\ reconnectAttempts' = c.attempts
           /\ timers' = c.timers
    /\ UNCHANGED <<isConnected, messageQueue, urlOk, sockLimit, dispatching, wire, calls,
                   posted, targetOrigins, received, closeCalls,
                   viewerVars, outlineVars,
                   otherVars>>

\* an open handler that leaves reconnectAttempts as it is
OnOpen_KeepsAttempts(s) ==
    /\ dispatching = 0
    /\ s \in Sockets
    /\ readyState[s] = "CONNECTING"
    /\ readyState' = [readyState EXCEPT ![s] = "OPEN"]
    /\ isConnected' = TRUE
    /\ reconnectAttempts' = reconnectAttempts
    /\ LET reg == send(<< <<"L", ":">>, <<>> >>, TRUE, ws, readyState',
                       wire, messageQueue)
           fl  == flushQueue(reg.queue, ws, readyState', reg.wire)
       IN  /\ wire' = fl.wire
           /\ messageQueue' = fl.queue
    /\ UNCHANGED <<ws, timers, urlOk, sockLimit, dispatching, calls, posted, targetOrigins, received,
                   closeCalls,
                   viewerVars, outlineVars,
                   otherVars>>

\* mutant: the queue is flushed before the registration message is sent
OnOpen_FlushFirst(s) ==
    /\ dispatching = 0
    /\ s \in Sockets
    /\ readyState[s] = "CONNECTING"
    /\ readyState' = [readyState EXCEPT ![s] = "OPEN"]
    /\ isConnected' = TRUE
    /\ reconnectAttempts' = 0
    /\ LET fl  == flushQueue(messageQueue, ws, readyState', wire)
           reg == send(<< <<"L", ":">>, <<>> >>, TRUE, ws, readyState',
                       fl.wire, fl.queue)
       IN  /\ wire' = reg.wire
           /\ messageQueue' = reg.queue
    /\ UNCHANGED <<ws, timers, urlOk, sockLimit, dispatching, calls, posted, targetOrigins,
                   received, closeCalls,
                   viewerVars, outlineVars,
                   otherVars>>

\* ws.onopen of socket s
OnOpen(s) ==
    /\ dispatching = 0
    /\ s \in Sockets
    /\ readyState[s] = "CONNECTING"
    /\ readyState' = [readyState EXCEPT ![s] = "OPEN"]
    /\ isConnected' = TRUE
    /\ reconnectAttempts' = 0
    /\ LET reg == send(<< <<"L", ":">>, <<>> >>, TRUE, ws, readyState',
                       wire, messageQueue)
           fl  == flushQueue(reg.queue, ws, readyState', reg.wire)
       IN  /\ wire' = fl.wire
           /\ messageQueue' = fl.queue
    /\ UNCHANGED <<ws, timers, urlOk, sockLimit, dispatching, calls, posted, targetOrigins, received,
                   closeCalls,
                   viewerVars, outlineVars,
                   otherVars>>

\* mutant: a frame that parseMessage rejects makes the handler close the
\* connection
OnMessage_CloseOnBadFrame(s, frame) ==
    /\ dispatching = 0
    /\ s \in Sockets
    /\ readyState[s] \in {"OPEN", "CLOSING"}
    /\ Len(received) < MaxInbound
    /\ received' = Append(received, frame)
    /\ LET bad == frame.isString /\ parseMessage(frame.data) = null
       IN  /\ posted' = IF frame.isString /\ ~bad
                        THEN Append(posted, parseMessage(frame.data))
                        ELSE posted
           /\ targetOrigins' = IF frame.isString /\ ~bad
                               THEN Append(targetOrigins, "*")
                               ELSE targetOrigins
           /\ isConnected' = (isConnected /\ ~bad)
           /\ readyState' = IF bad THEN [readyState EXCEPT ![s] = "CLOSING"]
                            ELSE readyState
    /\ UNCHANGED <<ws, reconnectAttempts, messageQueue, timers, urlOk,
                   sockLimit, dispatching, wire, calls, closeCalls,
                   viewerVars, outlineVars,
                   otherVars>>

\* a handler that forwards only what parseMessage made a message of
onmessage_SkipsNull(s, frame, limit) ==
    /\ dispatching = 0
    /\ s \in Sockets
    /\ readyState[s] \in {"OPEN", "CLOSING"}
    /\ Len(received) < limit
    /\ received' = Append(received, frame)
    /\ posted' = IF frame.isString /\ parseMessage(frame.data) # null
                 THEN Append(posted, parseMessage(frame.data))
                 ELSE posted
    /\ targetOrigins' = IF frame.isString /\ parseMessage(frame.data) # null
                        THEN Append(targetOrigins, "*")
                        ELSE targetOrigins
    /\ UNCHANGED <<ws, readyState, isConnected, reconnectAttempts,
                   messageQueue, timers, urlOk, sockLimit, dispatching, wire, calls,
                   closeCalls,
                   viewerVars, outlineVars,
                   otherVars>>

\* ws.onmessage of socket s for one frame; limit bounds the frames of a run
onmessage(s, frame, limit) ==
    /\ dispatching = 0
    /\ s \in Sockets
    /\ readyState[s] \in {"OPEN", "CLOSING"}
    /\ Len(received) < limit
    /\ received' = Append(received, frame)
    /\ posted' = IF frame.isString
                 THEN Append(posted, parseMessage(frame.data))
                 ELSE posted
    /\ targetOrigins' = IF frame.isString
                        THEN Append(targetOrigins, "*")
                        ELSE targetOrigins
    /\ UNCHANGED <<ws, readyState, isConnected, reconnectAttempts,
                   messageQueue, timers, urlOk, sockLimit, dispatching, wire, calls,
                   closeCalls,
                   viewerVars, outlineVars,
                   otherVars>>

\* ws.onmessage of socket s, a frame arrives
OnMessage(s, frame) == onmessage(s, frame, MaxInbound)

\* the server starts the closing handshake: no handler runs
ServerClosing(s) ==
    /\ dispatching = 0
    /\ s \in Sockets
    /\ readyState[s] = "OPEN"
    /\ readyState' = [readyState EXCEPT ![s] = "CLOSING"]
    /\ UNCHANGED <<ws, isConnected, reconnectAttempts, messageQueue, timers,
                   urlOk, sockLimit, dispatching, wire, calls, posted, targetOrigins, received,
                   closeCalls,
                   viewerVars, outlineVars,
                   otherVars>>

\* an error handler that schedules a reconnect as the close handler does
OnError_Reconnects(s) ==
    /\ dispatching = 0
    /\ s \in Sockets
    /\ readyState[s] # "CLOSED"
    /\ readyState' = [readyState EXCEPT ![s] = "CLOSED"]
    /\ isConnected' = FALSE
    /\ dispatching' = s
    /\ LET r == attemptReconnect(reconnectAttempts, timers)
       IN  /\ reconnectAttempts' = r.attempts
           /\ timers' = r.timers
    /\ UNCHANGED <<ws, messageQueue, urlOk, sockLimit, wire,
                   calls, posted, targetOrigins, received, closeCalls,
                   viewerVars, outlineVars,
                   otherVars>>

\* ws.onerror of socket s: the connection failed; its close event follows
\* in the same task
OnError(s) ==
    /\ dispatching = 0
    /\ s \in Sockets
    /\ readyState[s] # "CLOSED"
    /\ readyState' = [readyState EXCEPT ![s] = "CLOSED"]
    /\ isConnected' = FALSE
    /\ dispatching' = s
    /\ UNCHANGED <<ws, reconnectAttempts, messageQueue, timers, urlOk, sockLimit, wire,
                   calls, posted, targetOrigins, received, closeCalls,
                   viewerVars, outlineVars,
                   otherVars>>

\* ws.onclose of socket s: after its error event, or a clean close
OnClose(s) ==
    /\ s \in Sockets
    /\ \/ dispatching = s
       \/ dispatching = 0 /\ readyState[s] \in {"OPEN", "CLOSING"}
    /\ readyState' = [readyState EXCEPT ![s] = "CLOSED"]
    /\ dispatching' = 0
    /\ isConnected' = FALSE
    /\ LET r == attemptReconnect(reconnectAttempts, timers)
       IN  /\ reconnectAttempts' = r.attempts
           /\ timers' = r.timers
    /\ UNCHANGED <<ws, messageQueue, urlOk, sockLimit, wire, calls, posted, targetOrigins, received,
                   closeCalls,
                   viewerVars, outlineVars,
                   otherVars>>

\* the message a call of send() put on the wire or at the tail of the queue
Emitted(r, q) ==
    IF r.queue # q THEN r.queue[Len(r.queue)] ELSE r.wire[Len(r.wire)].msg

\* the page calls send(message)
Send(m) ==
    /\ dispatching = 0
    /\ Len(calls) < MaxSends
    /\ LET r == send(<<m>>, isConnected, ws, readyState, wire, messageQueue)
       IN  /\ wire' = r.wire
           /\ messageQueue' = r.queue
           /\ calls' = Append(calls, [fn |-> "send", arg |-> m,
                                      queued |-> r.queue # messageQueue,
                                      out |-> Emitted(r, messageQueue)])
    /\ UNCHANGED <<ws, readyState, isConnected, reconnectAttempts, timers,
                   urlOk, sockLimit, dispatching, posted, targetOrigins, received, closeCalls,
                   viewerVars, outlineVars,
                   otherVars>>

\* the page calls sendStatus(message)
SendStatus(m) ==
    /\ dispatching = 0
    /\ Len(calls) < MaxSends
    /\ LET r == send(sendStatusArgs(m), isConnected, ws, readyState, wire,
                     messageQueue)
       IN  /\ wire' = r.wire
           /\ messageQueue' = r.queue
           /\ calls' = Append(calls, [fn |-> "sendStatus", arg |-> <<m>>,
                                      queued |-> r.queue # messageQueue,
                                      out |-> Emitted(r, messageQueue)])
    /\ UNCHANGED <<ws, readyState, isConnected, reconnectAttempts, timers,
                   urlOk, sockLimit, dispatching, posted, targetOrigins, received, closeCalls,
                   viewerVars, outlineVars,
                   otherVars>>

\* ws.close() of the WebSocket API: starts the closing handshake
wsClose(rs, sock) ==
    IF rs[sock] \in {"CONNECTING", "OPEN"}
    THEN [rs EXCEPT ![sock] = "CLOSING"]
    ELSE rs

\* the page calls close()
Close ==
    /\ dispatching = 0
    /\ closeCalls < MaxCloseCalls
    /\ closeCalls' = closeCalls + 1
    /\ isConnected' = FALSE
    /\ IF ws # 0
       THEN readyState' = wsClose(readyState, ws) /\ ws' = 0
       ELSE UNCHANGED <<readyState, ws>>
    /\ UNCHANGED <<reconnectAttempts, messageQueue, timers, urlOk, sockLimit,
                   dispatching, wire, calls, posted, targetOrigins, received,
                   viewerVars, outlineVars,
                   otherVars>>

\* the connection lifecycle: timers and socket events
Lifecycle ==
    \/ \E i \in 1..maxReconnectAttempts : TimerFire(i)
    \/ \E s \in Sockets : OnOpen(s)
    \/ \E s \in Sockets : ServerClosing(s)
    \/ \E s \in Sockets : OnError(s)
    \/ \E s \in Sockets : OnClose(s)

\* ------------------------------------------------- viewer.html actions
cameraVars == <<_zoom, _position, _quaternion, _target>>

\* the view state the page keeps outside the Viewer object
viewState == <<_zoom, _position, _quaternion, _target, _clipping>>

\* the states of the outline the message handler saves before showViewer()
getOldStates ==
    IF viewer = 0 THEN NoStates
    ELSE IF ~treeview.exists THEN NoStates
    ELSE treeview.states

\* a scene is to be shown: old_states is taken and showViewer(shapes,
\* config) is entered; the event that brought the scene is the caller's
ShowViewer(shapes, config) ==
    /\ pc = "idle"
    /\ Len(viewers) < MaxScenes
    /\ old_states' = getOldStates
    /\ scene' = [shapes |-> shapes, config |-> config]
    /\ pc' = IF viewer # 0 THEN "halt" ELSE "assign"
    /\ carried' = viewState
    /\ UNCHANGED <<viewer, viewers, display, _shapes, _config, cameraVars,
                   _clipping, changes, commsVars, treeview, arrived,
                   rendered, touched, uiEvents, otherVars>>

\* viewer.hasAnimationLoop = false; viewer.continueAnimation = false;
Halt ==
    /\ pc = "halt"
    /\ viewers' = [viewers EXCEPT ![viewer].hasAnimationLoop = FALSE,
                                  ![viewer].continueAnimation = FALSE]
    /\ pc' = "dispose"
    /\ UNCHANGED <<viewer, display, _shapes, _config, cameraVars, _clipping,
                   scene, changes, carried, commsVars,
                   outlineVars, otherVars>>

\* the cleanup without viewer.dispose()
Dispose_Skipped ==
    /\ pc = "dispose"
    /\ pc' = "clear"
    /\ UNCHANGED <<viewer, viewers, display, _shapes, _config, cameraVars,
                   _clipping, scene, changes, carried, commsVars,
                   outlineVars, otherVars>>

\* viewer.dispose();
Dispose ==
    /\ pc = "dispose"
    /\ viewers' = [viewers EXCEPT ![viewer].disposed = TRUE]
    /\ pc' = "clear"
    /\ UNCHANGED <<viewer, display, _shapes, _config, cameraVars, _clipping,
                   scene, changes, carried, commsVars,
                   outlineVars, otherVars>>

\* viewer = null;
Clear ==
    /\ pc = "clear"
    /\ viewer' = 0
    /\ treeview' = nullTree
    /\ pc' = "assign"
    /\ UNCHANGED <<viewers, display, _shapes, _config, cameraVars, _clipping,
                   scene, changes, carried, commsVars, old_states, pending,
                   arrived, rendered, touched, uiEvents, otherVars>>

\* _shapes = shapes; _config = config;
Assign ==
    /\ pc = "assign"
    /\ _shapes' = scene.shapes
    /\ _config' = scene.config
    /\ pc' = "display"
    /\ UNCHANGED <<viewer, viewers, display, cameraVars, _clipping, scene,
                   changes, carried, commsVars,
                   outlineVars, otherVars>>

\* if (display == null) { ... display = new Display(container, ...); }
CreateDisplay ==
    /\ pc = "display"
    /\ display' = TRUE
    /\ pc' = "create"
    /\ UNCHANGED <<viewer, viewers, _shapes, _config, cameraVars, _clipping,
                   scene, changes, carried, commsVars,
                   outlineVars, otherVars>>

\* a creation that starts the new viewer from the default view
CreateViewer_DefaultView ==
    /\ pc = "create"
    /\ \E a, c \in BOOLEAN :
          viewers' = Append(viewers, [hasAnimationLoop |-> a,
                                      continueAnimation |-> c,
                                      disposed |-> FALSE])
    /\ viewer' = Len(viewers) + 1
    /\ treeview' = nullTree
    /\ pc' = "render"
    /\ _zoom' = nullValue
    /\ _position' = nullValue
    /\ _quaternion' = nullValue
    /\ _target' = nullValue
    /\ UNCHANGED <<display, _shapes, _config, _clipping, scene, changes,
                   carried, commsVars, old_states, pending, arrived,
                   rendered, touched, uiEvents, otherVars>>

\* viewer = new Viewer(display, displayOptions, nc, null); the animation
\* fields of the new object are the library's, so any value
CreateViewer ==
    /\ pc = "create"
    /\ \E a, c \in BOOLEAN :
          viewers' = Append(viewers, [hasAnimationLoop |-> a,
                                      continueAnimation |-> c,
                                      disposed |-> FALSE])
    /\ viewer' = Len(viewers) + 1
    /\ treeview' = nullTree
    /\ pc' = "render"
    /\ UNCHANGED <<display, _shapes, _config, cameraVars, _clipping, scene,
                   changes, carried, commsVars, old_states, pending,
                   arrived, rendered, touched, uiEvents, otherVars>>

\* if (_shapes) render(): the outline tree is built from the payload
Render ==
    /\ pc = "render"
    /\ treeview' = [exists |-> TRUE,
                    states |-> [id \in PartIds |->
                                   IF id \in Parts(_shapes)
                                   THEN PayloadState(_shapes, id)
                                   ELSE absent]]
    /\ rendered' = Append(rendered, [shapes |-> _shapes,
                                     config |-> _config])
    /\ pc' = "restore"
    /\ UNCHANGED <<viewer, viewers, display, _shapes, _config, cameraVars,
                   _clipping, scene, changes, carried, commsVars, old_states,
                   pending, arrived, touched, uiEvents, otherVars>>

\* a restore that leaves the new outline as the payload gave it
setStates_PayloadOnly(states, old) == states

\* the states of the new outline after viewer.setState(key, old_states[key])
\* for every key of the new outline that old_states has
setStates(states, old) ==
    [id \in PartIds |->
        IF states[id] # absent /\ old[id] # absent THEN old[id]
        ELSE states[id]]

\* viewer.setState(key, old_states[key]);
Restore ==
    /\ pc = "restore"
    /\ treeview' = [treeview EXCEPT !.states = setStates(@, old_states)]
    /\ pc' = "idle"
    /\ UNCHANGED <<viewer, viewers, display, _shapes, _config, cameraVars,
                   _clipping, scene, changes, carried, commsVars, old_states,
                   pending, arrived, rendered, touched, uiEvents, otherVars>>

\* the user shows, hides, expands or collapses a Part in the outline
SetState(id, st) ==
    /\ pc = "idle"
    /\ viewer # 0
    /\ treeview.exists
    /\ treeview.states[id] \notin {absent, st}
    /\ treeview' = [treeview EXCEPT !.states[id] = st]
    /\ UNCHANGED <<viewerVars, commsVars, old_states, pending, arrived,
                   rendered, touched, uiEvents, otherVars>>

\* a resize listener without the null check
Resize_NoNullCheck ==
    /\ pc = "idle"
    /\ uiEvents < MaxUiEvents
    /\ uiEvents' = uiEvents + 1
    /\ touched' = Append(touched, [op |-> "resize", viewer |-> viewer])
    /\ UNCHANGED <<viewerVars, commsVars, treeview, old_states, pending,
                   arrived, rendered, otherVars>>

\* the window's resize listener: if (viewer != null) { ... }
Resize ==
    /\ pc = "idle"
    /\ uiEvents < MaxUiEvents
    /\ uiEvents' = uiEvents + 1
    /\ touched' = IF viewer # 0
                  THEN Append(touched, [op |-> "resize", viewer |-> viewer])
                  ELSE touched
    /\ UNCHANGED <<viewerVars, commsVars, treeview, old_states, pending,
                   arrived, rendered, otherVars>>

\* a CONFIG patch is handled by the page
ConfigPatch ==
    /\ pc = "idle"
    /\ uiEvents < MaxUiEvents
    /\ uiEvents' = uiEvents + 1
    /\ touched' = IF viewer # 0
                  THEN Append(touched, [op |-> "config", viewer |-> viewer])
                  ELSE touched
    /\ UNCHANGED <<viewerVars, commsVars, treeview, old_states, pending,
                   arrived, rendered, otherVars>>

\* comms.js posts a scene to the window: a message event is queued
SceneArrives(shapes, config) ==
    /\ Len(arrived) < MaxScenes
    /\ pending' = Append(pending, [shapes |-> shapes, config |-> config])
    /\ arrived' = Append(arrived, [shapes |-> shapes, config |-> config])
    /\ UNCHANGED <<viewerVars, commsVars, treeview, old_states, rendered,
                   touched, uiEvents, otherVars>>

\* a listener that takes the newest message event first
OnWindowMessage_NewestFirst ==
    /\ pending # <<>>
    /\ ShowViewer(pending[Len(pending)].shapes, pending[Len(pending)].config)
    /\ pending' = SubSeq(pending, 1, Len(pending) - 1)

\* the window's message listener takes the oldest message event; it runs
\* when no other handler of the page is running
OnWindowMessage ==
    /\ pending # <<>>
    /\ ShowViewer(Head(pending).shapes, Head(pending).config)
    /\ pending' = Tail(pending)

\* showViewer() called by the page itself, as at page load
DirectShowViewer(shapes, config) ==
    /\ ShowViewer(shapes, config)
    /\ UNCHANGED pending

\* nc(change): the live viewer notifies a change of the view
nc(change) ==
    /\ pc = "idle"
    /\ viewer # 0
    /\ changes < MaxChanges
    /\ changes' = changes + 1
    /\ _zoom' = IF change.zoom # undefined THEN change.zoom ELSE _zoom
    /\ _position' = IF change.position # undefined THEN change.position
                    ELSE _position
    /\ _quaternion' = IF change.quaternion # undefined
                      THEN change.quaternion ELSE _quaternion
    /\ _target' = IF change.target # undefined THEN change.target
                  ELSE _target
    /\ _clipping' =
          [intersection |->
               IF change.clip_intersection # undefined
               THEN change.clip_intersection ELSE _clipping.intersection,
           sliders |->
               IF change.clip_slider_0 # undefined
               THEN <<change.clip_slider_0>> ELSE _clipping.sliders,
           normals |->
               IF change.clip_normal_0 # undefined
               THEN <<change.clip_normal_0>> ELSE _clipping.normals]
    /\ UNCHANGED <<viewer, viewers, display, _shapes, _config, pc, scene,
                   carried, commsVars,
                   outlineVars, otherVars>>

\* the page: scenes arrive and the live viewer notifies view changes
ViewerNext ==
    \/ \E s \in ShapeSets, c \in Configs : DirectShowViewer(s, c)
    \/ Halt
    \/ Dispose
    \/ Clear
    \/ Assign
    \/ CreateDisplay
    \/ CreateViewer
    \/ Render
    \/ Restore
    \/ \E change \in Changes : nc(change)

ViewerSpec == Init /\ [][ViewerNext]_vars

\* the page driven by the window's events: scenes are posted and handled,
\* the user works on the outline, the window is resized, CONFIG arrives
PageNext ==
    \/ \E s \in ShapeSets, c \in Configs : SceneArrives(s, c)
    \/ OnWindowMessage
    \/ Halt
    \/ Dispose
    \/ Clear
    \/ Assign
    \/ CreateDisplay
    \/ CreateViewer
    \/ Render
    \/ Restore
    \/ \E id \in PartIds, st \in StateValues : SetState(id, st)
    \/ Resize
    \/ ConfigPatch

PageSpec == Init /\ [][PageNext]_vars

\* ---------------------------------------------------- codec actions
\* the producer encodes the Instance into a scene payload with one Part
Encode ==
    /\ codecPc = "encode"
    /\ payload' = [parts |-> <<[hasRef |-> TRUE, ref |-> 0]>>,
                   instances |-> <<encode(instance)>>]
    /\ codecPc' = "decode"
    /\ UNCHANGED <<instance, decoded, commsVars, viewerVars, outlineVars,
                   registryVars, measureVars>>

\* the page decodes the payload: decode(data)
Decode ==
    /\ codecPc = "decode"
    /\ decoded' = decode(payload)
    /\ codecPc' = "done"
    /\ UNCHANGED <<instance, payload, commsVars, viewerVars, outlineVars,
                   registryVars, measureVars>>

CodecNext == Encode \/ Decode

\* the page is connected to nothing that matters here: one connection,
\* one input
CodecInit ==
    /\ InitWith(MaxSockets) /\ urlOk = TRUE
    /\ CodecInputs /\ RegistryInit /\ MeasureInit

CodecSpec == CodecInit /\ [][CodecNext]_vars

\* the connection and the outbound path: the page sends and closes
Next ==
    \/ Lifecycle
    \/ \E m \in Messages : Send(m)
    \/ \E m \in Statuses : SendStatus(m)
    \/ Close

Spec == Init /\ [][Next]_vars

\* the connection and the inbound path: the server sends frames while the
\* page reports status
InboundNext ==
    \/ Lifecycle
    \/ \E s \in Sockets, f \in Frames : OnMessage(s, f)
    \/ \E m \in Statuses : SendStatus(m)

InboundSpec == Init /\ [][InboundNext]_vars

\* the inbound path with several frames, over closes and reconnections
ForwardNext ==
    \/ Lifecycle
    \/ \E s \in Sockets, f \in Frames : onmessage(s, f, MaxFrames)

ForwardStart == Init /\ urlOk = TRUE

ForwardSpec == ForwardStart /\ [][ForwardNext]_vars

\* the parser alone: the first frame the server sends over an open
\* connection is any short string
ParserNext ==
    \/ \E s \in Sockets : OnOpen(s)
    \/ \E s \in Sockets, text \in FrameStrings :
           received = <<>> /\ OnMessage(s, [isString |-> TRUE, data |-> text])

ParserSpec == Init /\ [][ParserNext]_vars


\* the connection alone, with no call from the page, under the scheduling
\* the browser guarantees: a timer that was set fires, a connection attempt
\* is answered (accepted or failed), and the close event follows the error
\* event of the same task. The run may create enough sockets to use up the
\* whole retry budget after a connection was lost.
ReconnectSockets == MaxSockets + maxReconnectAttempts - 1

Answered(s) == OnOpen(s) \/ (readyState[s] = "CONNECTING" /\ OnError(s))

ReconnectInit ==
    InitWith(ReconnectSockets) /\ CodecIdle /\ RegistryInit /\ MeasureInit

ReconnectSpec ==
    /\ ReconnectInit
    /\ [][Lifecycle]_vars
    /\ WF_vars(\E i \in 1..maxReconnectAttempts : TimerFire(i))
    /\ WF_vars(\E s \in Sockets : Answered(s))
    /\ WF_vars(\E s \in Sockets : dispatching = s /\ OnClose(s))

\* a long session: the connection through enough sockets to use up the
\* retry budget after a reconnection, while the page sends
SessionNext ==
    \/ Lifecycle
    \/ \E m \in Messages : Send(m)

\* sockets enough for a reconnection, maxReconnectAttempts failures in all
\* around it and a last reconnection
SessionSockets == MaxSockets + maxReconnectAttempts

SessionInit ==
    InitWith(SessionSockets) /\ CodecIdle /\ RegistryInit /\ MeasureInit

SessionSpec == SessionInit /\ [][SessionNext]_vars

\* a server that never accepts: no socket opens; a timer that was set
\* fires, a failed attempt gets its error event and then its close event
RefusedNext ==
    \/ \E i \in 1..maxReconnectAttempts : TimerFire(i)
    \/ \E s \in Sockets : OnError(s)
    \/ \E s \in Sockets : OnClose(s)
    \/ \E m \in Messages : Send(m)

RefusedSpec ==
    /\ ReconnectInit
    /\ [][RefusedNext]_vars
    /\ WF_vars(\E i \in 1..maxReconnectAttempts : TimerFire(i))
    /\ WF_vars(\E s \in Sockets : OnError(s))
    /\ WF_vars(\E s \in Sockets : OnClose(s))

\* ------------------------------------------- session registry actions
\* register(connection, role): a REGISTER from a connection not yet known;
\* the connections are numbered in the order of their REGISTER
register(c, role) ==
    /\ roles[c] = "new"
    /\ \A b \in 1..(c - 1) : roles[b] # "new"
    /\ LET got == IF admits(role) THEN catchUp(role) ELSE <<RoleConflict>>
       IN  /\ roles' = [roles EXCEPT
                           ![c] = IF admits(role) THEN role ELSE "rejected"]
           /\ outbox' = [outbox EXCEPT ![c] = @ \o got]
           /\ registrations' =
                  Append(registrations,
                         [conn |-> c, role |-> role,
                          incumbents |-> computationPeers,
                          sentBefore |-> sent, got |-> got])
    /\ UNCHANGED <<lastScene, broadcast, sent, commsVars, viewerVars,
                   outlineVars, codecVars,
                   measureVars>>

\* unregister(connection): the connection of a registered peer closed
unregister(c) ==
    /\ roles[c] \in Roles
    /\ roles' = [roles EXCEPT ![c] = "closed"]
    /\ UNCHANGED <<lastScene, outbox, broadcast, sent, registrations,
                   commsVars, viewerVars, outlineVars, codecVars,
                   measureVars>>

\* route(message, fromConnection) for a message of the computation peer:
\* the message is retained if it is a SCENE and the broadcast begins over
\* a snapshot of the visualization peers
BeginBroadcast(type) ==
    /\ computationPeers # {}
    /\ ~broadcast.active
    /\ Len(sent) < MaxMessages
    /\ LET msg == [type |-> type, id |-> Len(sent) + 1]
       IN  /\ sent' = Append(sent, msg)
           /\ lastScene' = retain(msg, lastScene)
           /\ broadcast' = [msg |-> msg, snapshot |-> visualizationPeers,
                            visited |-> {}, dropped |-> {}, active |-> TRUE]
    /\ UNCHANGED <<roles, outbox, registrations, commsVars, viewerVars,
                   outlineVars, codecVars,
                   measureVars>>

\* one step of the iteration: the message is sent to a peer of the
\* snapshot, or the peer is passed over because its connection has closed
Deliver(p) ==
    /\ broadcast.active
    /\ p \in iteration(broadcast)
    /\ IF roles[p] = "visualization"
       THEN /\ outbox' = [outbox EXCEPT ![p] = Append(@, broadcast.msg)]
            /\ broadcast' = [broadcast EXCEPT !.visited = @ \cup {p}]
       ELSE /\ outbox' = outbox
            /\ broadcast' = [broadcast EXCEPT !.visited = @ \cup {p},
                                              !.dropped = @ \cup {p}]
    /\ UNCHANGED <<roles, lastScene, sent, registrations, commsVars,
                   viewerVars, outlineVars, codecVars,
                   measureVars>>

\* the iteration has no peer left: the broadcast is over
EndBroadcast ==
    /\ broadcast.active
    /\ iteration(broadcast) = {}
    /\ broadcast' = [broadcast EXCEPT !.active = FALSE]
    /\ UNCHANGED <<roles, lastScene, outbox, sent, registrations,
                   commsVars, viewerVars, outlineVars, codecVars,
                   measureVars>>

RegistryNext ==
    \/ \E c \in Conns, role \in Roles : register(c, role)
    \/ \E c \in Conns : unregister(c)
    \/ \E type \in BroadcastTypes : BeginBroadcast(type)
    \/ \E p \in Conns : Deliver(p)
    \/ EndBroadcast

RegistryStart == Init /\ urlOk = TRUE

RegistrySpec == RegistryStart /\ [][RegistryNext]_vars

\* ------------------------------------------- measurement tool actions
\* the page sends an update with the active tool and the selection:
\* checkChanges({selectedShapeIDs: [...], activeTool: ...})
ToolRequest(tool, ids, shift) ==
    /\ Len(toolRequests) < MaxRequests
    /\ toolRequests' =
           Append(toolRequests,
                  [activeTool |-> tool,
                   selectedShapeIDs |-> selectedShapeIDs(ids, shift)])
    /\ UNCHANGED <<responses, panels, backendAlive, commsVars, viewerVars,
                   outlineVars, codecVars, registryVars>>

\* the backend handles the oldest update not yet handled and sends its
\* response
HandleEvent ==
    /\ backendAlive
    /\ Len(responses) < Len(toolRequests)
    /\ LET k == Len(responses) + 1
       IN  responses' = Append(responses, handle_event(k, toolRequests[k]))
    /\ UNCHANGED <<toolRequests, panels, backendAlive, commsVars,
                   viewerVars, outlineVars, codecVars, registryVars>>

\* the number of responses the page has shown
shown == Len(panels[Distance]) + Len(panels[Properties])

\* the page receives the oldest response not yet shown and gives it to the
\* panel of its tool_type: _createPanel()
CreatePanel ==
    /\ shown < Len(responses)
    /\ LET r == responses[shown + 1]
       IN  panels' = [panels EXCEPT ![r.tool_type] = Append(@, r)]
    /\ UNCHANGED <<toolRequests, responses, backendAlive, commsVars,
                   viewerVars, outlineVars, codecVars, registryVars>>

MeasureNext ==
    \/ \E tool \in Tools, ids \in Selections, shift \in BOOLEAN :
           ToolRequest(tool, ids, shift)
    \/ HandleEvent
    \/ CreatePanel

MeasureStart == Init /\ urlOk = TRUE

MeasureSpec == MeasureStart /\ [][MeasureNext]_vars

\* ================================================================ claims
IsPrefix(a, b) == Len(a) <= Len(b) /\ SubSeq(b, 1, Len(a)) = a

REGISTER == <<"L", ":">>

\* the indices of the wire entries handed to socket s
OnSocket(s) == {i \in 1..Len(wire) : wire[i].sock = s}

\* C1: a message passed to send() while the connection is not open is
\* appended to messageQueue and nothing is transmitted; messages stay in
\* the queue, in order, until an open handler runs; the open handler of
\* socket s hands every queued message to s (OPEN), in order, after the
\* registration message, and leaves messageQueue empty.
C1_QueuedThenSentOnOpen ==
    [][ /\ \A m \in Messages :
            (Send(m) /\ ~CanTransmit(isConnected, ws, readyState))
                => (messageQueue' = Append(messageQueue, m) /\ wire' = wire)
        /\ \A s \in Sockets :
            OnOpen(s) =>
                /\ messageQueue' = <<>>
                /\ Len(wire') = Len(wire) + 1 + Len(messageQueue)
                /\ \A i \in 1..Len(messageQueue) :
                      wire'[Len(wire) + 1 + i] =
                          [sock |-> s, msg |-> messageQueue[i], st |-> "OPEN"]
        /\ (\A s \in Sockets : ~OnOpen(s))
                => IsPrefix(messageQueue, messageQueue') ]_vars

\* C1 witness: two calls of send() were queued and the queue has since been
\* flushed onto a socket
W_C1_FlushedTwo ==
    /\ Len(calls) = 2
    /\ \A k \in 1..2 : calls[k].queued /\ calls[k].fn = "send"
    /\ messageQueue = <<>>
    /\ \E i, j \in 1..Len(wire) :
          i < j /\ wire[i].msg = calls[1].arg /\ wire[j].msg = calls[2].arg

\* C2: every socket that is open has been sent the registration message,
\* and on every socket that was handed anything the registration message
\* is the first message and occurs exactly once.
C2_RegisterFirstOnce ==
    \A s \in Sockets :
        /\ readyState[s] = "OPEN" => OnSocket(s) # {}
        /\ OnSocket(s) # {} =>
            /\ \E i \in OnSocket(s) :
                  /\ wire[i].msg = REGISTER
                  /\ \A j \in OnSocket(s) : i <= j
            /\ Cardinality({i \in OnSocket(s) : wire[i].msg = REGISTER}) = 1

\* C2 witness: a reconnection registered on a second socket and then
\* flushed a queued message onto it
W_C2_ReRegistered ==
    \E s1, s2 \in Sockets :
        /\ s1 < s2
        /\ OnSocket(s1) # {}
        /\ Cardinality(OnSocket(s2)) >= 2

\* C3 (as claimed): the message a sendStatus(m) call emits is "U:" followed
\* by a JSON payload that contains m.
CE_C3_StatusPayloadPresent ==
    \A k \in 1..Len(calls) :
        calls[k].fn = "sendStatus" =>
            LET o == calls[k].out
            IN  /\ Len(o) > 2
                /\ o[1] = "U"
                /\ calls[k].arg[1] \in Range(substring(o, 2))

\* C8: every message handed to WebSocket.send was handed to a socket whose
\* readyState was OPEN at that moment.
C8_SendOnlyWhenOpen ==
    \A i \in 1..Len(wire) : wire[i].st = "OPEN"

\* C8 witness: one send() was transmitted at once, another was queued and
\* later flushed by an open handler
W_C8_DirectAndFlushed ==
    /\ \E k \in 1..Len(calls) : calls[k].queued
    /\ \E k \in 1..Len(calls) : ~calls[k].queued
    /\ messageQueue = <<>>

\* socket s was established: its open handler registered on it
Established(s) == OnSocket(s) # {}

\* an established connection has been closed and none is open
Lost ==
    /\ ~isConnected
    /\ dispatching = 0
    /\ \E s \in Sockets : Established(s) /\ readyState[s] = "CLOSED"

\* the retry budget is used up: maxReconnectAttempts attempts in a row failed
GaveUp ==
    /\ reconnectAttempts = maxReconnectAttempts
    /\ timers = <<>>
    /\ \A s \in Sockets : readyState[s] = "CLOSED"

\* the run has created all the sockets it may create
OutOfSockets == Len(readyState) = sockLimit

\* C4: the close event of an established connection sets the first
\* reconnect timer with no call from the page, and once a connection is
\* lost the client is eventually connected again unless
\* maxReconnectAttempts attempts in a row have failed (or the run has
\* created every socket the model allows).
C4_ReconnectsAfterLoss ==
    /\ [][ \A s \in Sockets :
              (OnClose(s) /\ Established(s))
                  => (timers' = Append(timers, reconnectDelay)
                      /\ reconnectAttempts' = 1) ]_vars
    /\ (Lost ~> (isConnected \/ GaveUp \/ OutOfSockets))

\* C4 witness: a connection was lost, attempts failed, and a later attempt
\* was accepted
W_C4_Reconnected ==
    /\ isConnected
    /\ \E s1, s2, s3 \in Sockets :
          /\ s1 < s2 /\ s2 < s3
          /\ Established(s1) /\ readyState[s1] = "CLOSED"
          /\ ~Established(s2)
          /\ readyState[s3] = "OPEN"

IsStringFrame(f) == f.isString

\* the inbound frames whose event.data is a string, in arrival order
StringFrames == SelectSeq(received, IsStringFrame)

\* frame f starts with a character that is none of the seven discriminators
UnknownDiscriminator(f) ==
    f.isString /\ Len(f.data) >= 1 /\ f.data[1] \notin DOMAIN types

\* frame f is not a REGISTER frame and its payload is absent or is not JSON
MalformedPayload(f) ==
    /\ f.isString
    /\ ~(Len(f.data) >= 1 /\ f.data[1] = "L")
    /\ (Len(f.data) < 2 \/ JSONparseThrows(substring(f.data, 2)))

\* any socket event that delivers a frame leaves the connection as it was
FrameKeepsConnection ==
    Len(received') > Len(received)
        => (readyState' = readyState /\ isConnected' = isConnected)

\* C5 (as claimed): no message posted to the viewer stems from a frame
\* with an unknown type discriminator.
CE_C5_UnknownTypeDropped ==
    \A i \in 1..Len(posted) :
        i <= Len(StringFrames) => ~UnknownDiscriminator(StringFrames[i])

\* C5 (amended): a string frame with an unknown type discriminator is
\* forwarded to the viewer, once and in arrival order: with type 'unknown'
\* and the content after its second character when it has at least two
\* characters, as null when it has one; the connection stays as it was.
C5_UnknownTypeForwarded ==
    /\ [](/\ Len(posted) = Len(StringFrames)
          /\ \A i \in 1..Len(StringFrames) :
                LET d == StringFrames[i].data
                IN  UnknownDiscriminator(StringFrames[i]) =>
                        IF Len(d) >= 2
                        THEN /\ posted[i].type = "unknown"
                             /\ posted[i].value = substring(d, 2)
                        ELSE posted[i] = null)
    /\ [][FrameKeepsConnection]_vars

\* C5 witness: a message of type 'unknown' was posted and the connection
\* is still open
W_C5_UnknownPosted ==
    /\ \E i \in 1..Len(posted) : posted[i].type = "unknown"
    /\ isConnected /\ ws # 0 /\ readyState[ws] = "OPEN"

\* C6 (as claimed): no message posted to the viewer stems from a
\* non-REGISTER frame whose payload is absent or is not JSON.
CE_C6_MalformedPayloadDropped ==
    \A i \in 1..Len(posted) :
        i <= Len(StringFrames) => ~MalformedPayload(StringFrames[i])

\* C6 (amended): a non-REGISTER string frame whose payload is absent or is
\* not JSON is forwarded to the viewer, once and in arrival order: as
\* {type, text: content} with the content after its second character when
\* it has at least two characters, as null when it is shorter; the
\* connection stays as it was.
C6_MalformedPayloadForwarded ==
    /\ [](/\ Len(posted) = Len(StringFrames)
          /\ \A i \in 1..Len(StringFrames) :
                LET d == StringFrames[i].data
                IN  MalformedPayload(StringFrames[i]) =>
                        IF Len(d) >= 2
                        THEN posted[i] = [type |-> getMessageType(d[1]),
                                          field |-> "text",
                                          value |-> substring(d, 2)]
                        ELSE posted[i] = null)
    /\ [][FrameKeepsConnection]_vars

\* C6 witness: a data frame that is not JSON was posted as text and the
\* connection is still open
W_C6_TextPosted ==
    /\ \E i \in 1..Len(posted) :
          posted[i].type = "data" /\ posted[i].field = "text"
    /\ isConnected /\ ws # 0 /\ readyState[ws] = "OPEN"

\* C7: a step that delivers an inbound frame, whatever the frame, leaves
\* ws, isConnected, reconnectAttempts and messageQueue unchanged, closes no
\* socket, sets no reconnect timer and transmits nothing.
C7_FrameLeavesConnectionState ==
    [][ Len(received') # Len(received)
            => UNCHANGED <<ws, isConnected, reconnectAttempts, messageQueue,
                           readyState, timers, wire,
                   viewerVars, outlineVars,
                   otherVars>> ]_vars

\* C7 witness: a frame too short to parse was delivered while a status
\* message was waiting in the queue
W_C7_BadFrameWhileQueued ==
    /\ received # <<>>
    /\ \E i \in 1..Len(posted) : posted[i] = null
    /\ messageQueue # <<>>


\* ------------------------------------------------------------ C9
\* a Viewer object whose animation loop is stopped
Halted(i) ==
    ~viewers[i].hasAnimationLoop /\ ~viewers[i].continueAnimation

\* the Viewer objects that still hold their render resources
Live == { i \in 1..Len(viewers) : ~viewers[i].disposed }

\* C9: on every new scene the previous viewer is halted, then disposed,
\* then dereferenced, and only then is the next viewer created: at most one
\* viewer is ever live, every viewer but the current one is halted and
\* disposed, a disposed viewer was halted first, the reference is null and
\* no viewer is live when the next one is constructed, and the variable
\* viewer is only ever reassigned from null to a new object or from a
\* disposed object to null.
C9_DisposeBeforeReconstruct ==
    /\ [](/\ Cardinality(Live) <= 1
          /\ \A i \in 1..Len(viewers) :
                /\ i # viewer => viewers[i].disposed
                /\ viewers[i].disposed => Halted(i)
          /\ pc \in {"assign", "display", "create"} =>
                viewer = 0 /\ Live = {}
          /\ pc = "idle" /\ viewer # 0 => Live = {viewer})
    /\ [][viewer' # viewer =>
             \/ viewer = 0 /\ viewer' = Len(viewers) + 1 /\ Live = {}
             \/ viewer # 0 /\ viewer' = 0 /\ viewers[viewer].disposed
                           /\ Halted(viewer)]_vars

\* a second scene replaced the first: the first viewer is disposed and the
\* second is the live one
W_C9_Replaced ==
    /\ pc = "idle"
    /\ Len(viewers) = 2
    /\ viewer = 2
    /\ viewers[1].disposed
    /\ ~viewers[2].disposed

ExpectedStates(shapes, old) ==
    [id \in PartIds |->
        IF id \notin Parts(shapes) THEN absent
        ELSE IF old[id] # absent THEN old[id]
        ELSE PayloadState(shapes, id)]

\* C11: when a scene is replaced, the outline saved on entry is the outline
\* of the viewer being replaced (empty when there is none), it is not
\* changed during the replacement, and the outline of the new scene when
\* the replacement ends has, per Part identifier: no entry for an
\* identifier the new scene lacks, the saved value for an identifier of
\* both scenes, and the payload's state for a new identifier.
C11_OutlineStatesMerged ==
    [][/\ pc = "idle" /\ pc' # "idle" =>
             old_states' = IF viewer # 0 /\ treeview.exists
                           THEN treeview.states ELSE NoStates
       /\ pc # "idle" => old_states' = old_states
       /\ pc = "restore" /\ pc' = "idle" =>
             /\ treeview'.exists
             /\ treeview'.states = ExpectedStates(_shapes, old_states)]_vars

\* scene s1 with Part a hidden by the user was replaced by scene s2: a is
\* gone, b kept "11" although the payload of s2 says "10", c is new
W_C11_MergedAfterReplace ==
    /\ pc = "idle"
    /\ Len(rendered) = 2
    /\ rendered[1].shapes = "s1" /\ rendered[2].shapes = "s2"
    /\ old_states = [id \in PartIds |->
                        IF id = "a" THEN "10"
                        ELSE IF id = "b" THEN "11" ELSE absent]
    /\ treeview.states = [id \in PartIds |->
                             IF id = "a" THEN absent ELSE "11"]

C13_ScenesQueuedInOrder ==
    /\ [](/\ IsPrefix(rendered, arrived)
          /\ Len(pending) <= Len(arrived)
          /\ pending = SubSeq(arrived, Len(arrived) - Len(pending) + 1,
                              Len(arrived))
          /\ Len(arrived) - Len(pending) - Len(rendered)
                = IF pc \in {"idle", "restore"} THEN 0 ELSE 1)
    /\ [][/\ Len(pending') < Len(pending) =>
                /\ pc = "idle" /\ pc' # "idle"
                /\ scene' = Head(pending)
                /\ pending' = Tail(pending)
          /\ Len(arrived') > Len(arrived) =>
                /\ pending' = Append(pending, arrived'[Len(arrived')])
                /\ UNCHANGED <<viewerVars, treeview, old_states,
                               rendered>>]_vars

\* two scenes wait in the queue while the first one's viewer is disposed
W_C13_WaitingDuringDispose ==
    /\ pc = "dispose"
    /\ Len(rendered) = 1
    /\ Len(pending) = 1
    /\ Len(arrived) = 3
    /\ arrived[2] # arrived[3]

\* ------------------------------------------------- geometry codec claims
\* the Parts of the decoded payload that carry a reference to an entry the
\* Instance Table has
Resolvable ==
    { i \in 1..Len(payload.parts) :
          /\ payload.parts[i].hasRef
          /\ payload.parts[i].ref < Len(payload.instances) }

\* the Parts that carry a reference to an entry the table does not have
Dangling ==
    { i \in 1..Len(payload.parts) :
          /\ payload.parts[i].hasRef
          /\ payload.parts[i].ref >= Len(payload.instances) }

\* the arrays of the payload whose byte length is not a multiple of 4
Misfits ==
    { b \in UNION { { payload.instances[k].vertices,
                      payload.instances[k].triangles } :
                        k \in 1..Len(payload.instances) } :
          Len(IF b.codec = "b64" THEN fromB64(b.buffer)
              ELSE fromHex(b.buffer)) % 4 # 0 }

CE_C15_DanglingReferenceReported ==
    codecPc = "done" =>
        /\ Dangling # {} => decoded.threw # ""
        /\ \A i \in 1..Len(decoded.parts) :
               decoded.parts[i].kind # "undefined"

\* C16: a decode pass over a payload with an array whose byte length is not
\* a multiple of 4 ends in an error and yields no Part and no array.
C16_MisfitBufferFails ==
    (codecPc = "done" /\ Misfits # {}) =>
        /\ decoded.threw = "RangeError"
        /\ decoded.parts = <<>>
        /\ decoded.heap = <<>>

\* C16 witness: a payload whose vertex buffer holds 5 bytes, one element
\* and one byte more, was decoded and the pass failed
W_C16_FiveBytesRefused ==
    /\ codecPc = "done"
    /\ Len(payload.instances) = 1
    /\ payload.instances[1].vertices.codec = "b64"
    /\ Len(fromB64(payload.instances[1].vertices.buffer)) = 5
    /\ Len(fromHex(payload.instances[1].triangles.buffer)) = 4
    /\ decoded.threw = "RangeError"

\* C17 (as claimed): the Instance decoded from the encoding of an Instance
\* has the elements of that Instance, the 32-bit integers with their
\* values, the negative ones included.
CE_C17_RoundTrip ==
    (codecPc = "done" /\ instance # noInstance) =>
        /\ decoded.threw = ""
        /\ Len(decoded.heap) = 1
        /\ LET out == decoded.heap[1]
           IN  /\ Len(out.vertices.elems) = Len(instance.vertices)
               /\ \A k \in 1..Len(instance.vertices) :
                      out.vertices.elems[k]
                          = Float32Word(instance.vertices[k])
               /\ Len(out.triangles.elems) = Len(instance.triangles)
               /\ \A k \in 1..Len(instance.triangles) :
                      /\ out.triangles.ctor = "Uint32Array"
                      /\ WordIsInt(out.triangles.elems[k],
                                   instance.triangles[k])

\* ----------------------------------------------- session registry claims
\* the last register() call
lastRegistration == registrations[Len(registrations)]

\* C18: at every moment at most one connection is registered as the
\* computation peer, and a register() call with role computation made
\* while a computation peer is registered sends RoleConflict to the new
\* connection, rejects it, and leaves the registered peer registered.
C18_OneComputationPeer ==
    /\ [](Cardinality(computationPeers) <= 1)
    /\ [][ Len(registrations') > Len(registrations) =>
               LET r == lastRegistration'
               IN  (r.role = "computation" /\ r.incumbents # {}) =>
                       /\ roles'[r.conn] = "rejected"
                       /\ outbox'[r.conn]
                              = Append(outbox[r.conn], RoleConflict)
                       /\ \A p \in r.incumbents :
                              roles'[p] = "computation" ]_vars

\* C18 witness: a second connection asked for the computation role while
\* the first held it; it was rejected with RoleConflict and the first is
\* still the computation peer
W_C18_SecondProducerRejected ==
    \E k \in 1..Len(registrations) :
        LET r == registrations[k]
        IN  /\ r.role = "computation"
            /\ r.incumbents # {}
            /\ r.got = <<RoleConflict>>
            /\ roles[r.conn] = "rejected"
            /\ computationPeers = r.incumbents

\* the SCENE messages among the messages of a sequence, by position
ScenesIn(s) == { i \in 1..Len(s) : s[i].type = "SCENE" }

\* the last element of a finite non-empty set of numbers
Latest(S) == CHOOSE i \in S : \A j \in S : j <= i

\* C19: a connection that registered as a visualization peer was sent at
\* registration the last SCENE broadcast before it and nothing else, and
\* nothing at all when no SCENE had been broadcast.
C19_CatchUpIsLastScene ==
    \A k \in 1..Len(registrations) :
        LET r == registrations[k]
        IN  r.role = "visualization" =>
                /\ r.got = IF ScenesIn(r.sentBefore) = {} THEN <<>>
                           ELSE <<r.sentBefore[Latest(ScenesIn(r.sentBefore))]>>
                /\ IsPrefix(r.got, outbox[r.conn])

\* C19 witness: a visualization peer registered after a SCENE and then a
\* message of another type had been broadcast, and was sent that SCENE
W_C19_LatecomerGetsScene ==
    \E k \in 1..Len(registrations) :
        LET r == registrations[k]
        IN  /\ r.role = "visualization"
            /\ Len(r.sentBefore) = 2
            /\ r.sentBefore[1].type = "SCENE"
            /\ r.sentBefore[2].type # "SCENE"
            /\ r.got = <<r.sentBefore[1]>>
            /\ outbox[r.conn] = r.got

\* how many times message m is in the sequence s
Occurrences(m, s) == Cardinality({ i \in 1..Len(s) : s[i] = m })

\* the messages broadcast after the k-th register() call whose broadcast
\* is over
DueSince(k) ==
    { i \in (Len(registrations[k].sentBefore) + 1)..Len(sent) :
          ~(broadcast.active /\ broadcast.msg = sent[i]) }

\* C20: whatever registrations and closings happen while broadcasts are in
\* progress, every visualization peer still registered has been sent,
\* exactly once, every message whose broadcast began after its
\* registration and is over; every peer of the snapshot is visited at most
\* once.
C20_BroadcastOverSnapshot ==
    /\ \A k \in 1..Len(registrations) :
           LET c == registrations[k].conn
           IN  roles[c] = "visualization" =>
                   \A i \in DueSince(k) : Occurrences(sent[i], outbox[c]) = 1
    /\ \A c \in Conns : \A i \in 1..Len(sent) :
           Occurrences(sent[i], outbox[c]) <= 1
    /\ broadcast.visited \subseteq broadcast.snapshot

\* C20 witness: a broadcast over two or more peers is over; one peer of
\* the snapshot had closed before its turn, another was sent the message
W_C20_PeerLeftDuringBroadcast ==
    /\ ~broadcast.active
    /\ broadcast.dropped # {}
    /\ \E p \in broadcast.snapshot \ broadcast.dropped :
           /\ roles[p] = "visualization"
           /\ Occurrences(broadcast.msg, outbox[p]) = 1

\* ---------------------------------------------- measurement tool claims
\* the number of object identifiers the k-th request carries
Identifiers(k) == Len(toolRequests[k].selectedShapeIDs) - 1

TypeName(ch) ==
    CASE ch = "C" -> "command"
      [] ch = "D" -> "data"
      [] ch = "S" -> "config"
      [] ch = "U" -> "update"
      [] ch = "L" -> "listen"
      [] ch = "B" -> "backend"
      [] ch = "R" -> "response"
      [] OTHER -> "unknown"

\* C23: the seven discriminators have seven different type names, none of
\* them 'unknown', and the message posted for a frame of two characters or
\* more has the type name of the frame's first character, 'unknown' when
\* that character is none of the seven, whatever follows it.
C23_SevenDiscriminators ==
    /\ Cardinality({ getMessageType(ch) : ch \in DOMAIN types }) = 7
    /\ DOMAIN types = {"C", "D", "S", "U", "L", "B", "R"}
    /\ \A i \in 1..Len(posted) :
           LET d == StringFrames[i].data
           IN  Len(d) >= 2 => posted[i].type = TypeName(d[1])

\* C23 witness: the frame "cC" was posted as 'unknown': the first
\* character alone decides, and a lower-case c is no discriminator
W_C23_SecondCharacterIgnored ==
    \E i \in 1..Len(posted) :
        /\ StringFrames[i].data = <<"c", "C">>
        /\ posted[i].type = "unknown"

\* C24 (as claimed): every message forwarded to the viewer is posted with
\* the page's own origin as target origin.
CE_C24_PostedToOwnOrigin ==
    \A i \in 1..Len(targetOrigins) :
        targetOrigins[i] = "window.location.origin"

\* ------------------------------------------------ outbound queue claims
\* the messages the page's calls emitted, in the order of the calls
Emissions == [k \in 1..Len(calls) |-> calls[k].out]

\* a wire entry that is not the registration message of an open handler
IsPayload(e) == e.msg # REGISTER

\* the messages handed to sockets, registrations left out, in order
Transmitted ==
    LET w == SelectSeq(wire, IsPayload)
    IN  [i \in 1..Len(w) |-> w[i].msg]

\* how many times message m is an element of sequence s
Count(m, s) == Cardinality({ i \in 1..Len(s) : s[i] = m })

\* C25: every message a call of send() emitted is, as many times as it
\* was emitted, either among the messages handed to a socket or in
\* messageQueue, and nothing else is in either place.
C25_NoLossNoDuplication ==
    /\ Len(Transmitted) + Len(messageQueue) = Len(Emissions)
    /\ \A m \in Range(Emissions) :
           Count(m, Transmitted) + Count(m, messageQueue)
               = Count(m, Emissions)

\* C25 witness: after a connection was lost and another attempt failed,
\* one message has been handed to a socket and another waits in the queue
W_C25_OneSentOneQueued ==
    /\ Len(readyState) >= 2
    /\ \A s \in Sockets : readyState[s] = "CLOSED"
    /\ reconnectAttempts >= 2
    /\ Len(Transmitted) = 1
    /\ Len(messageQueue) = 1

\* C26: the messages handed to sockets, registrations left out, followed
\* by the messages still queued, are the emitted messages in the order of
\* their send() calls.
C26_OrderPreserved ==
    Transmitted \o messageQueue = Emissions

\* C26 witness: two different messages were queued while disconnected and
\* both were handed to a socket by a later open handler, in their order
W_C26_TwoFlushedInOrder ==
    /\ Len(calls) = 2
    /\ calls[1].queued /\ calls[2].queued
    /\ calls[1].out # calls[2].out
    /\ Transmitted = Emissions

\* C27: reconnectAttempts stays within 0..maxReconnectAttempts; with the
\* budget used up no handler sets a further timer, and once the last
\* attempt has failed the client stays as it is: no timer, no new socket,
\* nothing more on the wire, and a later send() only queues its message
C27_BudgetBounded ==
    /\ [](reconnectAttempts \in 0..maxReconnectAttempts)
    /\ [][/\ reconnectAttempts = maxReconnectAttempts
             => Len(timers') <= Len(timers)
          /\ GaveUp
             => /\ GaveUp'
                /\ ~isConnected'
                /\ readyState' = readyState
                /\ wire' = wire
                /\ calls' # calls
                   => messageQueue' =
                          Append(messageQueue,
                                 sendParam(<<calls'[Len(calls')].arg>>))
         ]_vars

\* the budget was used up after a connection had been established and
\* lost, and a message sent since then waits in the queue
W_C27_GaveUpAndQueued ==
    /\ GaveUp
    /\ dispatching = 0
    /\ \E s \in Sockets : Established(s)
    /\ messageQueue # <<>>
    /\ calls # <<>> /\ calls[Len(calls)].queued

\* the sockets whose close event has been handled
Handled == {s \in Sockets : readyState[s] = "CLOSED" /\ dispatching # s}

\* C28: against a server that never accepts, the client makes the first
\* attempt and maxReconnectAttempts more and then stops for good; every
\* failed attempt costs one unit of the budget: its error event changes
\* neither the counter nor the timers, its close event counts once and
\* sets one timer while the budget lasts
C28_SixAttemptsThenStop ==
    /\ <>[](GaveUp /\ dispatching = 0 /\
             (urlOk => Len(readyState) = maxReconnectAttempts + 1))
    /\ [](Len(readyState) <= maxReconnectAttempts + 1)
    /\ [](urlOk => reconnectAttempts =
                       IF Cardinality(Handled) < maxReconnectAttempts
                       THEN Cardinality(Handled) ELSE maxReconnectAttempts)
    /\ [][/\ dispatching = 0 /\ dispatching' # 0
             => /\ reconnectAttempts' = reconnectAttempts
                /\ timers' = timers
          /\ dispatching # 0 /\ dispatching' = 0
             => IF reconnectAttempts < maxReconnectAttempts
                THEN /\ reconnectAttempts' = reconnectAttempts + 1
                     /\ Len(timers') = Len(timers) + 1
                ELSE /\ reconnectAttempts' = reconnectAttempts
                     /\ timers' = timers
         ]_vars

\* six sockets were tried, each got its error and its close event, and
\* the client has stopped
W_C28_StoppedAfterSix ==
    /\ urlOk
    /\ GaveUp
    /\ dispatching = 0
    /\ Cardinality(Handled) = maxReconnectAttempts + 1

\* C29: every open event sets reconnectAttempts to 0, so the budget bounds
\* the failures in a row and not the reconnections of a session, and while
\* the client is connected the counter is 0
C29_OpenResetsBudget ==
    /\ [](isConnected => reconnectAttempts = 0)
    /\ [][isConnected' /\ ~isConnected => reconnectAttempts' = 0]_vars

\* connected again after more failed attempts in the session than the
\* budget allows in a row
W_C29_ConnectedAfterManyFailures ==
    /\ isConnected
    /\ reconnectAttempts = 0
    /\ Cardinality({s \in Sockets : ~Established(s)}) > maxReconnectAttempts

\* the sockets that are not closed
NotClosed == {s \in Sockets : readyState[s] # "CLOSED"}

\* C30: with connect() called by the constructor and by the reconnect timer
\* only, at most one socket is not closed, at most one timer is pending,
\* and never both; so the server's frames arrive on one socket only and no
\* two sockets that registered are open together
C30_OneConnectionInProgress ==
    /\ Cardinality(NotClosed) <= 1
    /\ Len(timers) <= 1
    /\ ~(timers # <<>> /\ NotClosed # {})
    /\ \A s \in Sockets :
           Cardinality({i \in OnSocket(s) : wire[i].msg = REGISTER}) <= 1
    /\ \A s, u \in Sockets :
           (Established(s) /\ Established(u) /\ s # u)
               => ~({s, u} \subseteq NotClosed)

\* after two reconnections: three sockets registered one after the other,
\* the last one open, the others closed, no timer pending
W_C30_ThirdSocketAlone ==
    /\ Cardinality({s \in Sockets : Established(s)}) = MaxSockets
    /\ NotClosed = {ws}
    /\ readyState[ws] = "OPEN"
    /\ timers = <<>>

\* C31: close() is final: once close() has been called no socket is
\* created and nothing more is transmitted, neither a registration nor a
\* queued message, whatever event is handled afterwards
CE_C31_CloseIsFinal ==
    [][closeCalls > 0
          => /\ Len(readyState') = Len(readyState)
             /\ wire' = wire]_vars

\* C32: a call send(m) does one of two things: with isConnected true, a
\* socket held and that socket OPEN it hands m to that socket and leaves
\* messageQueue as it is; otherwise it appends m to messageQueue and hands
\* nothing to a socket. Either way isConnected, ws and reconnectAttempts,
\* and the sockets and timers, stay as they are
C32_SendTransmitsOrQueues ==
    [][(calls' # calls /\ calls'[Len(calls')].fn = "send")
          => LET m == calls'[Len(calls')].arg
             IN  /\ IF isConnected /\ ws # 0 /\ readyState[ws] = "OPEN"
                    THEN /\ wire' = Append(wire, [sock |-> ws, msg |-> m,
                                                  st |-> "OPEN"])
                         /\ messageQueue' = messageQueue
                    ELSE /\ messageQueue' = Append(messageQueue, m)
                         /\ wire' = wire
                 /\ UNCHANGED <<isConnected, ws, reconnectAttempts,
                                readyState, timers>>
      ]_vars

\* one send() was handed to the open socket, and after that socket closed
\* a second one was queued and still waits
W_C32_BothBranchesTaken ==
    /\ Len(calls) = 2
    /\ calls[1].fn = "send" /\ ~calls[1].queued
    /\ calls[2].fn = "send" /\ calls[2].queued
    /\ messageQueue = <<calls[2].arg>>
    /\ \E i \in 1..Len(wire) : wire[i].msg = calls[1].arg

\* C33: every inbound string frame is forwarded to the viewer exactly once,
\* by the handler of that frame, as what parseMessage makes of it; the
\* forwards are in the order of the frames; a frame that is not a string is
\* never forwarded
C33_EachStringFrameForwardedOnce ==
    /\ [](/\ Len(posted) = Len(StringFrames)
          /\ \A i \in 1..Len(posted) :
                 posted[i] = parseMessage(StringFrames[i].data))
    /\ [][/\ Len(received') > Len(received)
             => LET f == received'[Len(received')]
                IN  posted' = IF f.isString
                              THEN Append(posted, parseMessage(f.data))
                              ELSE posted
          /\ Len(received') = Len(received) => posted' = posted
         ]_vars

\* a string frame, a binary frame and a different string frame arrived:
\* two forwards, in the order of the two string frames
W_C33_TwoForwardsAroundBinary ==
    /\ Len(received) = 3
    /\ received[1].isString /\ ~received[2].isString /\ received[3].isString
    /\ Len(posted) = 2
    /\ posted[1] # posted[2]
    /\ posted[1] = parseMessage(received[1].data)
    /\ posted[2] = parseMessage(received[3].data)

\* the last socket that was established, 0 if none was
LastEstablished ==
    IF \E s \in Sockets : Established(s)
    THEN CHOOSE s \in Sockets :
             Established(s) /\ \A u \in Sockets : Established(u) => u <= s
    ELSE 0

\* the place in its failure streak of the attempt that follows the close
\* of the newest socket: 1 after an established socket, else one more than
\* the failed sockets since the last established one
Streak ==
    IF LastEstablished = 0 THEN Len(readyState)
    ELSE Len(readyState) - LastEstablished + 1

\* C34: the timer set for the k-th attempt of a failure streak runs
\* reconnectDelay * k, that is 1000, 2000, 3000, 4000 or 5000 ms, a second
\* more than the one before it in the streak, and 1000 ms again for the
\* first attempt after a socket was opened
C34_DelayGrowsWithAttempt ==
    /\ [](/\ \A i \in 1..Len(timers) :
                 /\ timers[i] = reconnectDelay * reconnectAttempts
                 /\ timers[i] \in {1000, 2000, 3000, 4000, 5000}
          /\ reconnectDelay * maxReconnectAttempts = 5000)
    /\ [][Len(timers') > Len(timers)
             => /\ timers' = Append(timers,
                                    reconnectDelay * (reconnectAttempts + 1))
                /\ reconnectAttempts > 0
                   => timers'[Len(timers')]
                          = reconnectDelay * reconnectAttempts + 1000
                /\ urlOk => timers'[Len(timers')] = reconnectDelay * Streak
         ]_vars

\* two attempts failed after 1000 and 2000 ms, the third socket was
\* opened and then lost, and the timer set now runs 1000 ms again
W_C34_BackTo1000AfterOpen ==
    /\ Len(readyState) = 3
    /\ ~Established(1) /\ ~Established(2) /\ Established(3)
    /\ readyState[3] = "CLOSED"
    /\ timers = <<1000>>

\* C35: the scene logo() returns is well-formed: the reference of its Part
\* is an index of its instance table, and every buffer of its Instance
\* decodes to a number of bytes that is a multiple of 4, the element size
\* of float32 and of int32; so the decode pass over it does not fail
CE_C35_LogoWellFormed ==
    payload = logo =>
        /\ Dangling = {}
        /\ Misfits = {}
        /\ codecPc = "done" => decoded.threw = ""

====
